---- MODULE Spec2Model ----
(***************************************************************************)
(* Cryptdatum header codec: the recognizer HasHeader, the validator        *)
(* HasValidHeader and the decoders DecodeHeader (Go) and decode_header (C),*)
(* applied to byte buffers a producer builds field by field.               *)
(*                                                                         *)
(* Bytes are integers 0..255.  A multi-byte unsigned value is a base-256   *)
(* numeral, most significant digit first (64-bit values do not fit the     *)
(* model checker's integers); the little-endian conversions reverse the    *)
(* byte order, and comparisons are numeral comparisons.                    *)
(***************************************************************************)
EXTENDS Integers, Sequences, FiniteSets, TLC

VARIABLES
    file,      \* the byte sequence handed to the codec (header, then payload)
    rec,       \* the field values the producer has put into the header
    edits,     \* number of producer/tester steps taken so far
    pc,        \* "build" | "ready" | "done"
    op,        \* the operation that ran: "none" or its name
    hh,        \* result of HasHeader
    hv,        \* result of HasValidHeader
    rkind,     \* how the reader delivers bytes (see ReaderKinds)
    cursor,    \* the reader's next-byte cursor
    nread,     \* count returned by the decoder's first reader invocation
    rerr,      \* error returned by the decoder's first reader invocation
    reads,     \* number of reader invocations the decoder made
    goHeader,  \* Header returned by DecodeHeader
    goErr,     \* error returned by DecodeHeader
    cHeader,   \* the caller's cdt_header_t after decode_header
    cErr,      \* cdt_error_t returned by decode_header
    cAlloc,    \* scratch buffers still allocated after decode_header
    beyond,    \* the memory that follows the buffer handed to a C function
    extent,    \* bytes from the start of the buffer the recognizer has read
    present,   \* the file exists and can be opened
    exitcode   \* exit status of the command-line tool

vars == <<file, rec, edits, pc, op, hh, hv, rkind, cursor, nread, rerr, reads,
          goHeader, goErr, cHeader, cErr, cAlloc, beyond, extent, present, exitcode>>

----------------------------------------------------------------------------
(* Bounds of the exploration *)

\* producer/tester steps applied to a generated header before it is used
MaxEdits == 1
\* bytes a "short" reader delivers per invocation at most
ChunkSize == 40
\* payload bytes a producer may append after the header
PayloadLen == 8

----------------------------------------------------------------------------
(* Constants of the format *)

HeaderSize == 80

Magic == <<167, 246, 229, 212, 195, 178, 161, 225>>

Delimiter == <<200, 183, 166, 229, 212, 195, 178, 241>>

empty == <<0, 0, 0, 0, 0, 0, 0, 0>>

\* 1652155382000000001 = 0x16EDA29101DC1C01
magicDate == <<22, 237, 162, 145, 1, 220, 28, 1>>

DatumInvalid == 1
DatumDraft == 2
DatumEmpty == 4
DatumChecksum == 8
DatumOPC == 16
DatumCompressed == 32
DatumEncrypted == 64
DatumExtractable == 128
DatumSigned == 256
DatumStreamable == 512
DatumCustom == 1024
DatumCompromised == 2048

----------------------------------------------------------------------------
(* Bytes, slices and numerals *)

Zeros(n) == [i \in 1..n |-> 0]

\* Go's b[lo:hi]
Slice(b, lo, hi) == SubSeq(b, lo + 1, hi)

\* copy(b[off:], v): v written over b from offset off, b's length kept
Splice(b, off, v) ==
    [i \in 1..Len(b) |-> IF i > off /\ i <= off + Len(v) THEN v[i - off] ELSE b[i]]

Reverse(s) == [i \in 1..Len(s) |-> s[Len(s) + 1 - i]]

\* the w-digit numeral of a small number n < 2^24
Num(n, w) ==
    [i \in 1..w |-> IF i = w THEN n % 256
                    ELSE IF i = w - 1 THEN (n \div 256) % 256
                    ELSE IF i = w - 2 THEN (n \div 65536) % 256
                    ELSE 0]

\* a < b for numerals of equal width (unsigned comparison)
NumLess(a, b) ==
    \E i \in 1..Len(a) : a[i] < b[i] /\ \A j \in 1..(i - 1) : a[j] = b[j]

\* the numeral's value modulo 2^16
Low16(a) == a[Len(a)] + 256 * a[Len(a) - 1]

\* flags & mask, for a mask that is one bit among the low 16
FlagsAnd(flags, mask) == IF (Low16(flags) \div mask) % 2 = 1 THEN mask ELSE 0

\* faulty variant: the bytes are taken most significant first
LittleEndianUint_BigEndian(b) == b

\* binary.LittleEndian.Uint16/Uint32/Uint64: the value of little-endian bytes
LittleEndianUint(b) == Reverse(b)

\* binary.LittleEndian.PutUint16/PutUint32/PutUint64: the bytes of a value
LittleEndianPutUint(v) == Reverse(v)

----------------------------------------------------------------------------
(* The recognizer and the validator (Go) *)

\* faulty variant: the delimiter is not compared
HasHeader_MagicOnly(data) ==
    IF Len(data) < HeaderSize THEN FALSE
    ELSE Magic = Slice(data, 0, 8)

HasHeader(data) ==
    IF Len(data) < HeaderSize THEN FALSE
    ELSE Magic = Slice(data, 0, 8) /\ Delimiter = Slice(data, 72, 80)

\* the bytes of data HasHeader compares: none of a short buffer, the magic,
\* and the delimiter when the magic matched
HasHeaderExtent(data) ==
    IF Len(data) < HeaderSize THEN 0
    ELSE IF Magic = Slice(data, 0, 8) THEN HeaderSize ELSE 8

\* the version check: version >= 1
VersionOk(data) == ~NumLess(LittleEndianUint(Slice(data, 8, 10)), Num(1, 2))

\* faulty variant: only the draft flag short-circuits
ShortCircuit_DraftOnly(flags) == FlagsAnd(flags, DatumDraft) # 0

\* the draft / compromised short-circuit
ShortCircuit(flags) ==
    FlagsAnd(flags, DatumDraft) # 0 \/ FlagsAnd(flags, DatumCompromised) # 0

\* faulty variant: the timestamp is not looked at
TimestampOk_Unchecked(data) == TRUE

\* a datum that is not a draft must have a timestamp
TimestampOk(data) == ~NumLess(LittleEndianUint(Slice(data, 18, 26)), magicDate)

\* faulty variant: the counter is not looked at
OPCOk_Unchecked(data, flags) == TRUE

\* DatumOPC: the counter must be >= 1
OPCOk(data, flags) ==
    ~(FlagsAnd(flags, DatumOPC) # 0
      /\ NumLess(LittleEndianUint(Slice(data, 26, 30)), Num(1, 4)))

\* faulty variant: the checksum is not looked at
ChecksumOk_Unchecked(data, flags) == TRUE

\* DatumChecksum: the checksum must be set
ChecksumOk(data, flags) ==
    ~(FlagsAnd(flags, DatumChecksum) # 0 /\ Slice(data, 30, 38) = empty)

\* faulty variant: the two algorithm fields are not looked at
EmptyOk_NoAlgorithms(data, flags) ==
    IF FlagsAnd(flags, DatumEmpty) # 0
    THEN IF NumLess(LittleEndianUint(Slice(data, 38, 46)), Num(1, 8)) THEN FALSE
         ELSE IF FlagsAnd(flags, DatumExtractable) # 0
                 /\ Slice(data, 50, 58) = empty THEN FALSE
         ELSE TRUE
    ELSE TRUE

\* DatumEmpty: size, and with their flags the compression algorithm, the
\* encryption algorithm and the file name
EmptyOk(data, flags) ==
    IF FlagsAnd(flags, DatumEmpty) # 0
    THEN IF NumLess(LittleEndianUint(Slice(data, 38, 46)), Num(1, 8)) THEN FALSE
         ELSE IF FlagsAnd(flags, DatumCompressed) # 0
                 /\ NumLess(LittleEndianUint(Slice(data, 46, 48)), Num(1, 2)) THEN FALSE
         ELSE IF FlagsAnd(flags, DatumEncrypted) # 0
                 /\ NumLess(LittleEndianUint(Slice(data, 48, 50)), Num(1, 2)) THEN FALSE
         ELSE IF FlagsAnd(flags, DatumExtractable) # 0
                 /\ Slice(data, 50, 58) = empty THEN FALSE
         ELSE TRUE
    ELSE TRUE

\* DatumSigned: the signature type must be set
SignedOk(data, flags) ==
    ~(FlagsAnd(flags, DatumSigned) # 0
      /\ NumLess(LittleEndianUint(Slice(data, 58, 60)), Num(1, 2)))

\* faulty variant: the recognizer is not asked, only the length
HasValidHeader_Unrecognized(data) ==
    IF Len(data) < HeaderSize THEN FALSE
    ELSE IF ~VersionOk(data) THEN FALSE
    ELSE LET flags == LittleEndianUint(Slice(data, 10, 18)) IN
         IF ShortCircuit(flags) THEN TRUE
         ELSE IF ~TimestampOk(data) THEN FALSE
         ELSE IF ~OPCOk(data, flags) THEN FALSE
         ELSE IF ~ChecksumOk(data, flags) THEN FALSE
         ELSE IF ~EmptyOk(data, flags) THEN FALSE
         ELSE IF ~SignedOk(data, flags) THEN FALSE
         ELSE TRUE

\* faulty variant: the flags short-circuit before the version is checked
HasValidHeader_FlagsFirst(data) ==
    IF ~HasHeader(data) THEN FALSE
    ELSE LET flags == LittleEndianUint(Slice(data, 10, 18)) IN
         IF ShortCircuit(flags) THEN TRUE
         ELSE IF ~VersionOk(data) THEN FALSE
         ELSE IF ~TimestampOk(data) THEN FALSE
         ELSE IF ~OPCOk(data, flags) THEN FALSE
         ELSE IF ~ChecksumOk(data, flags) THEN FALSE
         ELSE IF ~EmptyOk(data, flags) THEN FALSE
         ELSE IF ~SignedOk(data, flags) THEN FALSE
         ELSE TRUE

\* faulty variant: a header with the DatumInvalid flag is rejected
HasValidHeader_InvalidRejected(data) ==
    IF ~HasHeader(data) THEN FALSE
    ELSE IF ~VersionOk(data) THEN FALSE
    ELSE LET flags == LittleEndianUint(Slice(data, 10, 18)) IN
         IF FlagsAnd(flags, DatumInvalid) # 0 THEN FALSE
         ELSE IF ShortCircuit(flags) THEN TRUE
         ELSE IF ~TimestampOk(data) THEN FALSE
         ELSE IF ~OPCOk(data, flags) THEN FALSE
         ELSE IF ~ChecksumOk(data, flags) THEN FALSE
         ELSE IF ~EmptyOk(data, flags) THEN FALSE
         ELSE IF ~SignedOk(data, flags) THEN FALSE
         ELSE TRUE

\* the validator
HasValidHeader(data) ==
    IF ~HasHeader(data) THEN FALSE
    ELSE IF ~VersionOk(data) THEN FALSE
    ELSE LET flags == LittleEndianUint(Slice(data, 10, 18)) IN
         IF ShortCircuit(flags) THEN TRUE
         ELSE IF ~TimestampOk(data) THEN FALSE
         ELSE IF ~OPCOk(data, flags) THEN FALSE
         ELSE IF ~ChecksumOk(data, flags) THEN FALSE
         ELSE IF ~EmptyOk(data, flags) THEN FALSE
         ELSE IF ~SignedOk(data, flags) THEN FALSE
         ELSE TRUE

----------------------------------------------------------------------------
(* Readers *)

\* "full":  fills the buffer while bytes remain, then reports end-of-input
\*          with a count of 0 (bytes.Reader, os.File, fread)
\* "short": delivers at most ChunkSize bytes per invocation (a stream)
\* "eof":   as "full", but reports end-of-input together with the last bytes
\* "fail":  delivers nothing and reports a failure
ReaderKinds == {"full", "short", "eof", "fail"}

Min(a, b) == IF a < b THEN a ELSE b

\* r.Read(p) with len(p) = want: the count, the error, the bytes delivered and
\* the reader's cursor afterwards
Read(kind, src, cur, want) ==
    LET remaining == Len(src) - cur
        n == IF kind = "fail" THEN 0
             ELSE IF kind = "short" THEN Min(Min(want, ChunkSize), remaining)
             ELSE Min(want, remaining)
        err == IF kind = "fail" THEN "reader failure"
               ELSE IF n = 0 /\ want > 0 THEN "io.EOF"
               ELSE IF kind = "eof" /\ n = remaining THEN "io.EOF"
               ELSE "nil"
    IN [n |-> n, err |-> err, bytes |-> SubSeq(src, cur + 1, cur + n), cursor |-> cur + n]

----------------------------------------------------------------------------
(* The Go decoder *)

\* the zero value of type Header
ZeroHeader ==
    [magic |-> Zeros(8), Version |-> Zeros(2), Flags |-> Zeros(8),
     Timestamp |-> Zeros(8), OPC |-> Zeros(4), Size |-> Zeros(8),
     Checksum |-> Zeros(8), CompressionAlg |-> Zeros(2), EncryptionAlg |-> Zeros(2),
     SignatureType |-> Zeros(2), SignatureSize |-> Zeros(4), FileExt |-> <<>>,
     Custom |-> Zeros(8), delimiter |-> Zeros(8)]

\* faulty variant: the signature fields and the file extension are taken
\* from the places the validator looks at
ParseHeader_ValidatorOffsets(headb) ==
    [magic |-> Slice(headb, 0, 8),
     Version |-> LittleEndianUint(Slice(headb, 8, 10)),
     Flags |-> LittleEndianUint(Slice(headb, 10, 18)),
     Timestamp |-> LittleEndianUint(Slice(headb, 18, 26)),
     OPC |-> LittleEndianUint(Slice(headb, 26, 30)),
     Checksum |-> LittleEndianUint(Slice(headb, 30, 38)),
     Size |-> LittleEndianUint(Slice(headb, 38, 46)),
     CompressionAlg |-> LittleEndianUint(Slice(headb, 46, 48)),
     EncryptionAlg |-> LittleEndianUint(Slice(headb, 48, 50)),
     SignatureType |-> LittleEndianUint(Slice(headb, 58, 60)),
     SignatureSize |-> LittleEndianUint(Slice(headb, 60, 64)),
     FileExt |-> Slice(headb, 50, 58),
     Custom |-> Slice(headb, 64, 72),
     delimiter |-> Slice(headb, 72, 80)]

\* the fields of the header, each from its place in the 80 bytes read
ParseHeader(headb) ==
    [magic |-> Slice(headb, 0, 8),
     Version |-> LittleEndianUint(Slice(headb, 8, 10)),
     Flags |-> LittleEndianUint(Slice(headb, 10, 18)),
     Timestamp |-> LittleEndianUint(Slice(headb, 18, 26)),
     OPC |-> LittleEndianUint(Slice(headb, 26, 30)),
     Checksum |-> LittleEndianUint(Slice(headb, 30, 38)),
     Size |-> LittleEndianUint(Slice(headb, 38, 46)),
     CompressionAlg |-> LittleEndianUint(Slice(headb, 46, 48)),
     EncryptionAlg |-> LittleEndianUint(Slice(headb, 48, 50)),
     SignatureType |-> LittleEndianUint(Slice(headb, 50, 52)),
     SignatureSize |-> LittleEndianUint(Slice(headb, 52, 56)),
     FileExt |-> Slice(headb, 56, 64),
     Custom |-> Slice(headb, 64, 72),
     delimiter |-> Slice(headb, 72, 80)]

\* faulty variant: a short read is not detected
DecodeHeader_NoShortCheck(kind, src, cur) ==
    LET r == Read(kind, src, cur, HeaderSize)
        headb == Splice(Zeros(HeaderSize), 0, r.bytes)
        io == [n |-> r.n, rerr |-> r.err, cursor |-> r.cursor, reads |-> 1]
    IN IF r.err # "nil" THEN [header |-> ZeroHeader, err |-> r.err, io |-> io]
       ELSE IF ~HasHeader(headb)
            THEN [header |-> ZeroHeader, err |-> "ErrNoHeader", io |-> io]
       ELSE [header |-> ParseHeader(headb), err |-> "nil", io |-> io]

\* faulty variant: the bytes read are parsed without asking the recognizer
DecodeHeader_NoRecognizer(kind, src, cur) ==
    LET r == Read(kind, src, cur, HeaderSize)
        headb == Splice(Zeros(HeaderSize), 0, r.bytes)
        io == [n |-> r.n, rerr |-> r.err, cursor |-> r.cursor, reads |-> 1]
    IN IF r.err # "nil" THEN [header |-> ZeroHeader, err |-> r.err, io |-> io]
       ELSE IF r.n < HeaderSize
            THEN [header |-> ZeroHeader, err |-> "io.ErrUnexpectedEOF", io |-> io]
       ELSE [header |-> ParseHeader(headb), err |-> "nil", io |-> io]

\* faulty variant: the decoder validates and reports an invalid header
DecodeHeader_Validating(kind, src, cur) ==
    LET r == Read(kind, src, cur, HeaderSize)
        headb == Splice(Zeros(HeaderSize), 0, r.bytes)
        io == [n |-> r.n, rerr |-> r.err, cursor |-> r.cursor, reads |-> 1]
    IN IF r.err # "nil" THEN [header |-> ZeroHeader, err |-> r.err, io |-> io]
       ELSE IF r.n < HeaderSize
            THEN [header |-> ZeroHeader, err |-> "io.ErrUnexpectedEOF", io |-> io]
       ELSE IF ~HasHeader(headb)
            THEN [header |-> ZeroHeader, err |-> "ErrNoHeader", io |-> io]
       ELSE IF ~HasValidHeader(headb)
            THEN [header |-> ZeroHeader, err |-> "ErrInvalidHeader", io |-> io]
       ELSE [header |-> ParseHeader(headb), err |-> "nil", io |-> io]

\* faulty variant: the fields parsed so far are returned with the error
DecodeHeader_LeakyNoHeader(kind, src, cur) ==
    LET r == Read(kind, src, cur, HeaderSize)
        headb == Splice(Zeros(HeaderSize), 0, r.bytes)
        io == [n |-> r.n, rerr |-> r.err, cursor |-> r.cursor, reads |-> 1]
    IN IF r.err # "nil" THEN [header |-> ParseHeader(headb), err |-> r.err, io |-> io]
       ELSE IF r.n < HeaderSize
            THEN [header |-> ParseHeader(headb), err |-> "io.ErrUnexpectedEOF", io |-> io]
       ELSE IF ~HasHeader(headb)
            THEN [header |-> ParseHeader(headb), err |-> "ErrNoHeader", io |-> io]
       ELSE [header |-> ParseHeader(headb), err |-> "nil", io |-> io]

\* DecodeHeader(r): the header, the error, and what the call did to the reader
DecodeHeader(kind, src, cur) ==
    LET r == Read(kind, src, cur, HeaderSize)
        headb == Splice(Zeros(HeaderSize), 0, r.bytes)
        io == [n |-> r.n, rerr |-> r.err, cursor |-> r.cursor, reads |-> 1]
    IN IF r.err # "nil" THEN [header |-> ZeroHeader, err |-> r.err, io |-> io]
       ELSE IF r.n < HeaderSize
            THEN [header |-> ZeroHeader, err |-> "io.ErrUnexpectedEOF", io |-> io]
       ELSE IF ~HasHeader(headb)
            THEN [header |-> ZeroHeader, err |-> "ErrNoHeader", io |-> io]
       ELSE [header |-> ParseHeader(headb), err |-> "nil", io |-> io]

----------------------------------------------------------------------------
(* The C decoder *)

\* has_header of cryptdatum.c, on a buffer of at least CDT_HEADER_SIZE bytes
has_header(data) ==
    Slice(data, 0, 8) = Magic /\ Slice(data, 72, 80) = Delimiter

\* the bytes has_header compares, counted from data: it is given no length
has_header_extent(data) == IF Slice(data, 0, 8) = Magic THEN HeaderSize ELSE 8

\* the enumerators of cdt_datum_flags_t the validator tests
CDT_DATUM_DRAFT == 2
CDT_DATUM_EMPTY == 4
CDT_DATUM_CHECKSUM == 8
CDT_DATUM_OPC == 16
CDT_DATUM_COMPRESSED == 32
CDT_DATUM_ENCRYPTED == 64
CDT_DATUM_EXTRACTABLE == 128
CDT_DATUM_SIGNED == 256
CDT_DATUM_COMPROMISED == 2048

\* has_valid_header of cryptdatum.c: behind has_header, each field read
\* through a pointer into the buffer and converted with le16toh, le32toh or
\* le64toh; flags is a uint64_t
has_valid_header(data) ==
    IF ~has_header(data) THEN FALSE
    ELSE IF NumLess(LittleEndianUint(Slice(data, 8, 10)), Num(1, 2)) THEN FALSE
    ELSE LET flags == LittleEndianUint(Slice(data, 10, 18)) IN
         IF FlagsAnd(flags, CDT_DATUM_DRAFT) # 0
            \/ FlagsAnd(flags, CDT_DATUM_COMPROMISED) # 0 THEN TRUE
         ELSE IF NumLess(LittleEndianUint(Slice(data, 18, 26)), magicDate) THEN FALSE
         ELSE IF FlagsAnd(flags, CDT_DATUM_OPC) # 0
                 /\ NumLess(LittleEndianUint(Slice(data, 26, 30)), Num(1, 4)) THEN FALSE
         ELSE IF FlagsAnd(flags, CDT_DATUM_CHECKSUM) # 0
                 /\ Slice(data, 30, 38) = empty THEN FALSE
         ELSE IF FlagsAnd(flags, CDT_DATUM_EMPTY) # 0
                 /\ NumLess(LittleEndianUint(Slice(data, 38, 46)), Num(1, 8)) THEN FALSE
         ELSE IF FlagsAnd(flags, CDT_DATUM_EMPTY) # 0
                 /\ FlagsAnd(flags, CDT_DATUM_COMPRESSED) # 0
                 /\ NumLess(LittleEndianUint(Slice(data, 46, 48)), Num(1, 2)) THEN FALSE
         ELSE IF FlagsAnd(flags, CDT_DATUM_EMPTY) # 0
                 /\ FlagsAnd(flags, CDT_DATUM_ENCRYPTED) # 0
                 /\ NumLess(LittleEndianUint(Slice(data, 48, 50)), Num(1, 2)) THEN FALSE
         ELSE IF FlagsAnd(flags, CDT_DATUM_EMPTY) # 0
                 /\ FlagsAnd(flags, CDT_DATUM_EXTRACTABLE) # 0
                 /\ Slice(data, 50, 58) = empty THEN FALSE
         ELSE IF FlagsAnd(flags, CDT_DATUM_SIGNED) # 0
                 /\ NumLess(LittleEndianUint(Slice(data, 58, 60)), Num(1, 2)) THEN FALSE
         ELSE TRUE

\* what the memory after a buffer of n bytes may hold up to byte 80 from its
\* start, where a read past the buffer ends up: zeros, or the delimiter an
\* earlier header left there
Beyond(n) ==
    IF n >= HeaderSize THEN {<<>>}
    ELSE {[i \in 1..(HeaderSize - n) |-> 0],
          [i \in 1..(HeaderSize - n) |-> IF n + i > 72 THEN Delimiter[n + i - 72] ELSE 0]}

\* conversion of a 64-bit value to cdt_datum_flags_t, an enum whose
\* enumerators all fit 32 bits: the value modulo 2^32
ToFlagsT(v) == SubSeq(v, Len(v) - 3, Len(v))

\* what the caller's cdt_header_t holds before the call
CallerHeader ==
    [magic |-> <<>>, version |-> <<>>, flags |-> <<>>, timestamp |-> <<>>,
     opc |-> <<>>, checksum |-> <<>>, size |-> <<>>, compression_alg |-> <<>>,
     encryption_alg |-> <<>>, signature_type |-> <<>>, signature_size |-> <<>>,
     file_ext |-> <<>>, custom |-> <<>>, delimiter |-> <<>>]

\* decode_header(read, source, header): the caller's record afterwards, the
\* error code, the scratch buffers left allocated, and what the call did to
\* the reader
decode_header(kind, src, cur, header) ==
    LET r == Read(kind, src, cur, HeaderSize)
        headerb == r.bytes
        io1 == [n |-> r.n, rerr |-> r.err, cursor |-> r.cursor, reads |-> 1]
    IN IF r.n < HeaderSize
       THEN [header |-> header, err |-> "CDT_ERROR_IO", alloc |-> 0, io |-> io1]
       ELSE IF ~has_header(headerb)
       THEN [header |-> header, err |-> "CDT_ERROR_NO_HEADER", alloc |-> 1, io |-> io1]
       ELSE LET r2 == Read(kind, src, r.cursor, 8)
                ext == Splice(Slice(headerb, 56, 64), 0, r2.bytes)
            IN [header |->
                   [magic |-> Slice(headerb, 0, 8),
                    version |-> LittleEndianUint(Slice(headerb, 8, 10)),
                    flags |-> ToFlagsT(LittleEndianUint(Slice(headerb, 10, 18))),
                    timestamp |-> LittleEndianUint(Slice(headerb, 18, 26)),
                    opc |-> LittleEndianUint(Slice(headerb, 26, 30)),
                    checksum |-> LittleEndianUint(Slice(headerb, 30, 38)),
                    size |-> LittleEndianUint(Slice(headerb, 38, 46)),
                    compression_alg |-> LittleEndianUint(Slice(headerb, 46, 48)),
                    encryption_alg |-> LittleEndianUint(Slice(headerb, 48, 50)),
                    signature_type |-> LittleEndianUint(Slice(headerb, 50, 52)),
                    signature_size |-> LittleEndianUint(Slice(headerb, 52, 56)),
                    file_ext |-> Append(ext, 0),
                    custom |-> Slice(headerb, 64, 72),
                    delimiter |-> Slice(headerb, 72, 80)],
                err |-> "CDT_ERROR_NONE", alloc |-> 0,
                io |-> [n |-> r.n, rerr |-> r.err, cursor |-> r2.cursor, reads |-> 2]]

----------------------------------------------------------------------------
(* The earlier package: VerifyHeader (Go) and verify_header (C) *)

\* the flag constants of the earlier Go package (1 << iota)
LegacyDatumDraft == 2
LegacyDatumEmpty == 4
LegacyDatumChecksum == 8
LegacyDatumOPC == 16
LegacyDatumCompressed == 32
LegacyDatumEncrypted == 64
LegacyDatumExtractable == 128
LegacyDatumSigned == 256
LegacyDatumCompromised == 2048

\* faulty variant: the file extension and the signature type are looked for
\* where the generator of the later package writes them
VerifyHeader_GeneratorOffsets(data) ==
    IF Len(data) < HeaderSize THEN FALSE
    ELSE IF Magic # Slice(data, 0, 8) \/ Delimiter # Slice(data, 72, 80) THEN FALSE
    ELSE IF NumLess(LittleEndianUint(Slice(data, 8, 10)), Num(1, 2)) THEN FALSE
    ELSE LET flags == LittleEndianUint(Slice(data, 10, 18)) IN
         IF FlagsAnd(flags, LegacyDatumDraft) # 0
            \/ FlagsAnd(flags, LegacyDatumCompromised) # 0 THEN TRUE
         ELSE IF NumLess(LittleEndianUint(Slice(data, 18, 26)), magicDate) THEN FALSE
         ELSE IF FlagsAnd(flags, LegacyDatumOPC) # 0
                 /\ NumLess(LittleEndianUint(Slice(data, 26, 30)), Num(1, 4)) THEN FALSE
         ELSE IF FlagsAnd(flags, LegacyDatumChecksum) # 0
                 /\ Slice(data, 30, 38) = empty THEN FALSE
         ELSE IF FlagsAnd(flags, LegacyDatumEmpty) # 0
                 /\ NumLess(LittleEndianUint(Slice(data, 38, 46)), Num(1, 8)) THEN FALSE
         ELSE IF FlagsAnd(flags, LegacyDatumEmpty) # 0
                 /\ FlagsAnd(flags, LegacyDatumCompressed) # 0
                 /\ NumLess(LittleEndianUint(Slice(data, 46, 48)), Num(1, 2)) THEN FALSE
         ELSE IF FlagsAnd(flags, LegacyDatumEmpty) # 0
                 /\ FlagsAnd(flags, LegacyDatumEncrypted) # 0
                 /\ NumLess(LittleEndianUint(Slice(data, 48, 50)), Num(1, 2)) THEN FALSE
         ELSE IF FlagsAnd(flags, LegacyDatumEmpty) # 0
                 /\ FlagsAnd(flags, LegacyDatumExtractable) # 0
                 /\ Slice(data, 56, 64) = empty THEN FALSE
         ELSE IF FlagsAnd(flags, LegacyDatumSigned) # 0
                 /\ NumLess(LittleEndianUint(Slice(data, 50, 52)), Num(1, 2)) THEN FALSE
         ELSE TRUE

\* VerifyHeader of the earlier Go package
VerifyHeader(data) ==
    IF Len(data) < HeaderSize THEN FALSE
    ELSE IF Magic # Slice(data, 0, 8) \/ Delimiter # Slice(data, 72, 80) THEN FALSE
    ELSE IF NumLess(LittleEndianUint(Slice(data, 8, 10)), Num(1, 2)) THEN FALSE
    ELSE LET flags == LittleEndianUint(Slice(data, 10, 18)) IN
         IF FlagsAnd(flags, LegacyDatumDraft) # 0
            \/ FlagsAnd(flags, LegacyDatumCompromised) # 0 THEN TRUE
         ELSE IF NumLess(LittleEndianUint(Slice(data, 18, 26)), magicDate) THEN FALSE
         ELSE IF FlagsAnd(flags, LegacyDatumOPC) # 0
                 /\ NumLess(LittleEndianUint(Slice(data, 26, 30)), Num(1, 4)) THEN FALSE
         ELSE IF FlagsAnd(flags, LegacyDatumChecksum) # 0
                 /\ Slice(data, 30, 38) = empty THEN FALSE
         ELSE IF FlagsAnd(flags, LegacyDatumEmpty) # 0
                 /\ NumLess(LittleEndianUint(Slice(data, 38, 46)), Num(1, 8)) THEN FALSE
         ELSE IF FlagsAnd(flags, LegacyDatumEmpty) # 0
                 /\ FlagsAnd(flags, LegacyDatumCompressed) # 0
                 /\ NumLess(LittleEndianUint(Slice(data, 46, 48)), Num(1, 2)) THEN FALSE
         ELSE IF FlagsAnd(flags, LegacyDatumEmpty) # 0
                 /\ FlagsAnd(flags, LegacyDatumEncrypted) # 0
                 /\ NumLess(LittleEndianUint(Slice(data, 48, 50)), Num(1, 2)) THEN FALSE
         ELSE IF FlagsAnd(flags, LegacyDatumEmpty) # 0
                 /\ FlagsAnd(flags, LegacyDatumExtractable) # 0
                 /\ Slice(data, 50, 58) = empty THEN FALSE
         ELSE IF FlagsAnd(flags, LegacyDatumSigned) # 0
                 /\ NumLess(LittleEndianUint(Slice(data, 58, 60)), Num(1, 2)) THEN FALSE
         ELSE TRUE

\* the flag macros of the earlier C header
DATUM_DRAFT == 2
DATUM_EMPTY == 4
DATUM_CHECKSUM == 8
DATUM_OPC == 16
DATUM_COMPRESSED == 32
DATUM_ENCRYPTED == 64
DATUM_EXTRACTABLE == 128
DATUM_SIGNED == 256
DATUM_COMPROMISED == 2048

\* faulty variant: a header that is not a draft is never accepted
verify_header_DraftsOnly(data) ==
    IF Slice(data, 0, 8) # Magic \/ Slice(data, 72, 80) # Delimiter THEN FALSE
    ELSE IF NumLess(LittleEndianUint(Slice(data, 8, 10)), Num(1, 2)) THEN FALSE
    ELSE LET flags == LittleEndianUint(Slice(data, 10, 18)) IN
         FlagsAnd(flags, DATUM_DRAFT) # 0 \/ FlagsAnd(flags, DATUM_COMPROMISED) # 0

\* verify_header of the earlier C library: it is given no length
verify_header(data) ==
    IF Slice(data, 0, 8) # Magic \/ Slice(data, 72, 80) # Delimiter THEN FALSE
    ELSE IF NumLess(LittleEndianUint(Slice(data, 8, 10)), Num(1, 2)) THEN FALSE
    ELSE LET flags == LittleEndianUint(Slice(data, 10, 18)) IN
         IF FlagsAnd(flags, DATUM_DRAFT) # 0 \/ FlagsAnd(flags, DATUM_COMPROMISED) # 0
         THEN TRUE
         ELSE IF NumLess(LittleEndianUint(Slice(data, 18, 26)), magicDate) THEN FALSE
         ELSE IF FlagsAnd(flags, DATUM_OPC) # 0
                 /\ NumLess(LittleEndianUint(Slice(data, 26, 30)), Num(1, 4)) THEN FALSE
         ELSE IF FlagsAnd(flags, DATUM_CHECKSUM) # 0
                 /\ Slice(data, 30, 38) = empty THEN FALSE
         ELSE IF FlagsAnd(flags, DATUM_EMPTY) # 0
                 /\ NumLess(LittleEndianUint(Slice(data, 38, 46)), Num(1, 8)) THEN FALSE
         ELSE IF FlagsAnd(flags, DATUM_EMPTY) # 0
                 /\ FlagsAnd(flags, DATUM_COMPRESSED) # 0
                 /\ NumLess(LittleEndianUint(Slice(data, 46, 48)), Num(1, 2)) THEN FALSE
         ELSE IF FlagsAnd(flags, DATUM_EMPTY) # 0
                 /\ FlagsAnd(flags, DATUM_ENCRYPTED) # 0
                 /\ NumLess(LittleEndianUint(Slice(data, 48, 50)), Num(1, 2)) THEN FALSE
         ELSE IF FlagsAnd(flags, DATUM_EMPTY) # 0
                 /\ FlagsAnd(flags, DATUM_EXTRACTABLE) # 0
                 /\ Slice(data, 50, 58) = empty THEN FALSE
         ELSE IF FlagsAnd(flags, DATUM_SIGNED) # 0
                 /\ NumLess(LittleEndianUint(Slice(data, 58, 60)), Num(1, 2)) THEN FALSE
         ELSE TRUE

\* the 80 bytes specV1createValidDraft writes to valid-header.cdt
specV1createValidDraft ==
    LET h0  == Zeros(HeaderSize)
        h1  == Splice(h0, 0, Magic)
        h2  == Splice(h1, 8, LittleEndianPutUint(Num(1, 2)))
        h3  == Splice(h2, 10, LittleEndianPutUint(Num(4 + 8 + 16 + 32 + 64 + 128 + 512, 8)))
        h4  == Splice(h3, 18, LittleEndianPutUint(magicDate))
        h5  == Splice(h4, 26, LittleEndianPutUint(<<128, 0, 0, 0>>))
        h6  == Splice(h5, 30, <<99, 104, 101, 99, 107, 115, 117, 109>>)
        h7  == Splice(h6, 38, LittleEndianPutUint(<<128, 0, 0, 0, 0, 0, 0, 0>>))
        h8  == Splice(h7, 46, LittleEndianPutUint(<<128, 0>>))
        h9  == Splice(h8, 48, LittleEndianPutUint(<<64, 0>>))
        h10 == Splice(h9, 50, <<97, 102, 102, 105, 120, 105, 110, 103>>)
        h11 == Splice(h10, 58, LittleEndianPutUint(<<128, 0>>))
        h12 == Splice(h11, 60, LittleEndianPutUint(<<64, 0>>))
        h13 == Splice(h12, 64, <<116, 97, 105, 108, 111, 114, 101, 100>>)
    IN Splice(h13, 72, Delimiter)

----------------------------------------------------------------------------
(* The producer: the test-data generator, generalised to any field values *)

\* createTestHasValidHeader with the field values of H: an 80-byte header
EncodeHeader(H) ==
    LET h0  == Zeros(HeaderSize)
        h1  == Splice(h0, 0, Magic)
        h2  == Splice(h1, 8, LittleEndianPutUint(H.Version))
        h3  == Splice(h2, 10, LittleEndianPutUint(H.Flags))
        h4  == Splice(h3, 18, LittleEndianPutUint(H.Timestamp))
        h5  == Splice(h4, 26, LittleEndianPutUint(H.OPC))
        h6  == Splice(h5, 30, LittleEndianPutUint(H.Checksum))
        h7  == Splice(h6, 38, LittleEndianPutUint(H.Size))
        h8  == Splice(h7, 46, LittleEndianPutUint(H.CompressionAlg))
        h9  == Splice(h8, 48, LittleEndianPutUint(H.EncryptionAlg))
        h10 == Splice(h9, 50, LittleEndianPutUint(H.SignatureType))
        h11 == Splice(h10, 52, LittleEndianPutUint(H.SignatureSize))
        h12 == Splice(h11, 56, H.FileExt)
        h13 == Splice(h12, 64, H.Custom)
    IN Splice(h13, 72, Delimiter)

\* the field values createTestHasValidHeader writes (has-aligned-header.cdt)
AlignedRec ==
    [Version |-> Num(1, 2),
     Flags |-> Num(4 + 8 + 16 + 64 + 32 + 256 + 1024 + 128, 8),
     Timestamp |-> magicDate,
     OPC |-> Num(2, 4),
     Checksum |-> Reverse(<<99, 104, 101, 99, 107, 115, 117, 109>>),
     Size |-> Num(3, 8),
     CompressionAlg |-> Num(4, 2),
     EncryptionAlg |-> Num(5, 2),
     SignatureType |-> Num(6, 2),
     SignatureSize |-> Num(7, 4),
     FileExt |-> <<97, 102, 102, 105, 120, 105, 110, 103>>,
     Custom |-> <<116, 97, 105, 108, 111, 114, 101, 100>>]

\* the header the unit tests build: version 1, the draft flag, the rest zero
DraftRec ==
    [Version |-> Num(1, 2), Flags |-> Num(DatumDraft, 8), Timestamp |-> Zeros(8),
     OPC |-> Zeros(4), Checksum |-> Zeros(8), Size |-> Zeros(8),
     CompressionAlg |-> Zeros(2), EncryptionAlg |-> Zeros(2),
     SignatureType |-> Zeros(2), SignatureSize |-> Zeros(4),
     FileExt |-> Zeros(8), Custom |-> Zeros(8)]

FieldNames ==
    {"Version", "Flags", "Timestamp", "OPC", "Checksum", "Size", "CompressionAlg",
     "EncryptionAlg", "SignatureType", "SignatureSize", "FileExt", "Custom"}

\* where the generator writes each field
FieldOffset(f) ==
    CASE f = "Version" -> 8
      [] f = "Flags" -> 10
      [] f = "Timestamp" -> 18
      [] f = "OPC" -> 26
      [] f = "Checksum" -> 30
      [] f = "Size" -> 38
      [] f = "CompressionAlg" -> 46
      [] f = "EncryptionAlg" -> 48
      [] f = "SignatureType" -> 50
      [] f = "SignatureSize" -> 52
      [] f = "FileExt" -> 56
      [] f = "Custom" -> 64

\* the bytes the generator writes for a field value: raw for the byte
\* arrays, little-endian for the integers
FieldBytes(f, v) == IF f \in {"FileExt", "Custom"} THEN v ELSE LittleEndianPutUint(v)

\* flags with bit k flipped
ToggleBit(flags, k) ==
    LET d == Len(flags) - (k \div 8)
        w == 2 ^ (k % 8)
    IN [flags EXCEPT ![d] = IF (@ \div w) % 2 = 1 THEN @ - w ELSE @ + w]

\* the flag bits a producer sets or clears: the assigned bits 0..11 and
\* three unassigned ones
FlagBits == (0..11) \cup {12, 32, 63}

\* the values a producer may put in a field
FieldValues(f, H) ==
    CASE f = "Version" -> {Num(0, 2), Num(1, 2), Num(256, 2)}
      [] f = "Flags" -> {ToggleBit(H.Flags, k) : k \in FlagBits}
      [] f = "Timestamp" -> {Zeros(8), <<22, 237, 162, 145, 1, 220, 28, 0>>, magicDate,
                             <<128, 0, 0, 0, 0, 0, 0, 0>>}
      [] f = "OPC" -> {Num(0, 4), Num(2, 4)}
      [] f = "Checksum" -> {Zeros(8), AlignedRec.Checksum}
      [] f = "Size" -> {Num(0, 8), Num(3, 8)}
      [] f = "CompressionAlg" -> {Num(0, 2), Num(4, 2)}
      [] f = "EncryptionAlg" -> {Num(0, 2), Num(5, 2)}
      [] f = "SignatureType" -> {Num(0, 2), Num(6, 2)}
      [] f = "SignatureSize" -> {Num(0, 4), Num(7, 4)}
      [] f = "FileExt" -> {Zeros(8), AlignedRec.FileExt}
      [] f = "Custom" -> {Zeros(8), AlignedRec.Custom}

\* the offsets of the magic and delimiter bytes
TagOffsets == (0..7) \cup (72..79)

\* the byte a recognized header holds at a magic or delimiter offset
TagByte(o) == IF o < 8 THEN Magic[o + 1] ELSE Delimiter[o - 71]

\* the payload bytes a producer appends
Payload == [i \in 1..PayloadLen |-> 112]

----------------------------------------------------------------------------
(* The state machine *)

NoResult == "none"

\* the records a producer starts from: the two headers of the repository,
\* each with either file extension, either signature type and version 0 or 1
InitRecs ==
    {[b EXCEPT !.FileExt = e, !.SignatureType = t, !.Version = v] :
        b \in {DraftRec, AlignedRec},
        e \in FieldValues("FileExt", AlignedRec),
        t \in FieldValues("SignatureType", AlignedRec),
        v \in {Num(0, 2), Num(1, 2)}}

\* the fields a reader of the current layout finds in valid-header.cdt,
\* whose file extension starts at 50 and signature type at 58
ValidHeaderRec ==
    [Version |-> Num(1, 2),
     Flags |-> Num(4 + 8 + 16 + 32 + 64 + 128 + 512, 8),
     Timestamp |-> magicDate,
     OPC |-> <<128, 0, 0, 0>>,
     Checksum |-> Reverse(<<99, 104, 101, 99, 107, 115, 117, 109>>),
     Size |-> <<128, 0, 0, 0, 0, 0, 0, 0>>,
     CompressionAlg |-> <<128, 0>>,
     EncryptionAlg |-> <<64, 0>>,
     SignatureType |-> <<102, 97>>,
     SignatureSize |-> <<105, 120, 105, 102>>,
     FileExt |-> <<110, 103, 0, 128, 0, 64, 0, 0>>,
     Custom |-> <<116, 97, 105, 108, 111, 114, 101, 100>>]

Init ==
    /\ rec \in InitRecs \cup {ValidHeaderRec}
    /\ file = EncodeHeader(rec)
    /\ edits = 0
    /\ pc = "build"
    /\ op = "none"
    /\ hh = NoResult
    /\ hv = NoResult
    /\ rkind = "none"
    /\ cursor = 0
    /\ nread = 0
    /\ rerr = "nil"
    /\ reads = 0
    /\ goHeader = ZeroHeader
    /\ goErr = "nil"
    /\ cHeader = CallerHeader
    /\ cErr = "CDT_ERROR_NONE"
    /\ cAlloc = 0
    /\ beyond = <<>>
    /\ extent = 0
    /\ present = TRUE
    /\ exitcode = NoResult

results == <<op, hh, hv, rkind, cursor, nread, rerr, reads, goHeader, goErr,
             cHeader, cErr, cAlloc, beyond, extent, exitcode>>

\* what a decoder call leaves alone
decoderIdle == <<file, rec, edits, hh, hv, beyond, extent, present, exitcode>>

\* what a recognizer or validator call leaves alone
readerIdle == <<rkind, cursor, nread, rerr, reads, goHeader, goErr, cHeader, cErr,
                cAlloc, present, exitcode>>

\* what a run of the command-line tool leaves alone
toolIdle == <<file, rec, edits, present, hh, hv, rkind, cursor, nread, rerr, reads,
              goHeader, goErr, cHeader, cErr, cAlloc, beyond, extent>>

\* the producer writes one field (binary.LittleEndian.PutUintN / copy)
PutField ==
    /\ pc = "build" /\ edits < MaxEdits /\ Len(file) >= HeaderSize
    /\ \E f \in FieldNames : \E v \in FieldValues(f, rec) :
          /\ v # rec[f]
          /\ file' = Splice(file, FieldOffset(f), FieldBytes(f, v))
          /\ rec' = [rec EXCEPT ![f] = v]
    /\ edits' = edits + 1
    /\ UNCHANGED <<pc, present, results>>

\* a test overwrites one byte of the magic or the delimiter
Corrupt ==
    /\ pc = "build" /\ edits < MaxEdits /\ Len(file) >= HeaderSize
    /\ \E o \in TagOffsets : \E b \in {0, 255} :
          /\ b # file[o + 1]
          /\ file' = [file EXCEPT ![o + 1] = b]
    /\ edits' = edits + 1
    /\ UNCHANGED <<rec, pc, present, results>>

\* a test hands over only the first n bytes, n < HeaderSize
Truncate ==
    /\ pc = "build" /\ edits < MaxEdits /\ Len(file) >= HeaderSize
    /\ \E n \in 0..(HeaderSize - 1) : file' = SubSeq(file, 1, n)
    /\ edits' = edits + 1
    /\ UNCHANGED <<rec, pc, present, results>>

\* the producer appends payload bytes after the header
AppendPayload ==
    /\ pc = "build" /\ edits < MaxEdits /\ Len(file) = HeaderSize
    /\ file' = file \o Payload
    /\ edits' = edits + 1
    /\ UNCHANGED <<rec, pc, present, results>>

\* the file is removed or made unreadable: it can no longer be opened
Remove ==
    /\ pc = "build" /\ edits < MaxEdits /\ present
    /\ present' = FALSE
    /\ file' = <<>>
    /\ edits' = edits + 1
    /\ UNCHANGED <<rec, pc, results>>

CallHasHeader ==
    /\ pc = "build"
    /\ pc' = "done" /\ op' = "HasHeader"
    /\ hh' = HasHeader(file)
    /\ extent' = HasHeaderExtent(file)
    /\ UNCHANGED <<file, rec, edits, hv, beyond, readerIdle>>

CallHasValidHeader ==
    /\ pc = "build"
    /\ pc' = "done" /\ op' = "HasValidHeader"
    /\ hv' = HasValidHeader(file)
    /\ extent' = HasHeaderExtent(file)
    /\ UNCHANGED <<file, rec, edits, hh, beyond, readerIdle>>

\* the C recognizer, handed a pointer to the buffer and no length
Call_has_header ==
    /\ pc = "build"
    /\ \E m \in Beyond(Len(file)) :
          /\ beyond' = m
          /\ hh' = has_header(file \o m)
          /\ extent' = has_header_extent(file \o m)
    /\ pc' = "done" /\ op' = "has_header"
    /\ UNCHANGED <<file, rec, edits, hv, readerIdle>>

\* the C validator, handed a pointer to the buffer and no length
Call_has_valid_header ==
    /\ pc = "build"
    /\ \E m \in Beyond(Len(file)) :
          /\ beyond' = m
          /\ hv' = has_valid_header(file \o m)
          /\ extent' = has_header_extent(file \o m)
    /\ pc' = "done" /\ op' = "has_valid_header"
    /\ UNCHANGED <<file, rec, edits, hh, readerIdle>>

\* the validator of the earlier Go package
CallVerifyHeader ==
    /\ pc = "build"
    /\ pc' = "done" /\ op' = "VerifyHeader"
    /\ hv' = VerifyHeader(file)
    /\ extent' = HasHeaderExtent(file)
    /\ UNCHANGED <<file, rec, edits, hh, beyond, readerIdle>>

\* the validator of the earlier C library, handed a pointer and no length
Call_verify_header ==
    /\ pc = "build"
    /\ \E m \in Beyond(Len(file)) :
          /\ beyond' = m
          /\ hv' = verify_header(file \o m)
          /\ extent' = has_header_extent(file \o m)
    /\ pc' = "done" /\ op' = "verify_header"
    /\ UNCHANGED <<file, rec, edits, hh, readerIdle>>

CallDecodeHeader ==
    /\ pc = "build"
    /\ \E k \in ReaderKinds :
          LET d == DecodeHeader(k, file, cursor) IN
          /\ rkind' = k
          /\ goHeader' = d.header /\ goErr' = d.err
          /\ cursor' = d.io.cursor /\ nread' = d.io.n /\ rerr' = d.io.rerr
          /\ reads' = d.io.reads
    /\ pc' = "done" /\ op' = "DecodeHeader"
    /\ UNCHANGED <<decoderIdle, cHeader, cErr, cAlloc>>

Call_decode_header ==
    /\ pc = "build"
    /\ \E k \in ReaderKinds :
          LET d == decode_header(k, file, cursor, cHeader) IN
          /\ rkind' = k
          /\ cHeader' = d.header /\ cErr' = d.err /\ cAlloc' = d.alloc
          /\ cursor' = d.io.cursor /\ nread' = d.io.n /\ rerr' = d.io.rerr
          /\ reads' = d.io.reads
    /\ pc' = "done" /\ op' = "decode_header"
    /\ UNCHANGED <<decoderIdle, goHeader, goErr>>

\* go run cmd/cryptdatum.go file-has-header FILE
cmdFileHasHeader ==
    /\ pc = "build"
    /\ pc' = "done" /\ op' = "cmdFileHasHeader"
    /\ exitcode' =
          IF ~present THEN 1
          ELSE LET r == Read("full", file, 0, HeaderSize)
                   headb == Splice(Zeros(HeaderSize), 0, r.bytes)
               IN IF r.err # "nil" /\ r.err # "io.EOF" THEN 1
                  ELSE IF ~HasHeader(headb) THEN 1
                  ELSE 0
    /\ UNCHANGED toolIdle

\* faulty variant: the validator is not asked
cmdFileHasValidHeader_RecognizerOnly ==
    /\ pc = "build"
    /\ pc' = "done" /\ op' = "cmdFileHasValidHeader"
    /\ exitcode' =
          IF ~present THEN 1
          ELSE LET r == Read("full", file, 0, HeaderSize)
                   headb == Splice(Zeros(HeaderSize), 0, r.bytes)
               IN IF r.err # "nil" /\ r.err # "io.EOF" THEN 1
                  ELSE IF ~HasHeader(headb) THEN 1
                  ELSE 0
    /\ UNCHANGED toolIdle

\* go run cmd/cryptdatum.go file-has-valid-header FILE
cmdFileHasValidHeader ==
    /\ pc = "build"
    /\ pc' = "done" /\ op' = "cmdFileHasValidHeader"
    /\ exitcode' =
          IF ~present THEN 1
          ELSE LET r == Read("full", file, 0, HeaderSize)
                   headb == Splice(Zeros(HeaderSize), 0, r.bytes)
               IN IF r.err # "nil" /\ r.err # "io.EOF" THEN 1
                  ELSE IF ~HasHeader(headb) THEN 1
                  ELSE IF ~HasValidHeader(headb) THEN 1
                  ELSE 0
    /\ UNCHANGED toolIdle

\* go run cmd/cryptdatum.go file-info FILE
cmdFileInfo ==
    /\ pc = "build"
    /\ pc' = "done" /\ op' = "cmdFileInfo"
    /\ exitcode' =
          IF ~present THEN 1
          ELSE IF DecodeHeader("full", file, 0).err # "nil" THEN 1
          ELSE 0
    /\ UNCHANGED toolIdle

\* cryptdatum file-has-header FILE (C)
cmd_file_has_header ==
    /\ pc = "build"
    /\ pc' = "done" /\ op' = "_cmd_file_has_header"
    /\ exitcode' =
          IF ~present THEN 1
          ELSE LET r == Read("full", file, 0, HeaderSize)
               IN IF r.n < HeaderSize \/ ~has_header(r.bytes) THEN 1 ELSE 0
    /\ UNCHANGED toolIdle

\* cryptdatum file-has-valid-header FILE (C)
cmd_file_has_valid_header ==
    /\ pc = "build"
    /\ pc' = "done" /\ op' = "_cmd_file_has_valid_header"
    /\ exitcode' =
          IF ~present THEN 1
          ELSE LET r == Read("full", file, 0, HeaderSize)
                   first == IF r.n < HeaderSize \/ ~has_header(r.bytes) THEN 1 ELSE 0
               IN IF first = 0 /\ ~has_valid_header(r.bytes) THEN 1 ELSE first
    /\ UNCHANGED toolIdle

\* cryptdatum file-info FILE (C)
cmd_file_info ==
    /\ pc = "build"
    /\ pc' = "done" /\ op' = "_cmd_file_info"
    /\ exitcode' =
          IF ~present THEN 1
          ELSE IF decode_header("full", file, 0, CallerHeader).err # "CDT_ERROR_NONE" THEN 1
          ELSE 0
    /\ UNCHANGED toolIdle

Next ==
    \/ PutField
    \/ Corrupt
    \/ Truncate
    \/ AppendPayload
    \/ CallHasHeader
    \/ CallHasValidHeader
    \/ Call_has_header
    \/ Call_has_valid_header
    \/ CallDecodeHeader
    \/ Call_decode_header

Spec == Init /\ [][Next]_vars

\* the earlier package under the same producer
LegacyNext ==
    \/ PutField
    \/ Corrupt
    \/ Truncate
    \/ AppendPayload
    \/ CallVerifyHeader
    \/ Call_verify_header

LegacySpec == Init /\ [][LegacyNext]_vars

\* the command-line tools, run on the file the producer left
ToolNext ==
    \/ PutField
    \/ Corrupt
    \/ Truncate
    \/ AppendPayload
    \/ Remove
    \/ cmdFileHasHeader
    \/ cmdFileHasValidHeader
    \/ cmdFileInfo
    \/ cmd_file_has_header
    \/ cmd_file_has_valid_header
    \/ cmd_file_info

ToolSpec == Init /\ [][ToolNext]_vars

----------------------------------------------------------------------------
(* What the format description says of a byte sequence, at the offsets of *)
(* its field table                                                        *)

Recognized(b) ==
    /\ Len(b) >= 80
    /\ \A i \in 1..8 : b[i] = Magic[i] /\ b[72 + i] = Delimiter[i]

\* an unsigned little-endian field of w bytes at offset off is >= 1
NonZero(b, off, w) == \E i \in (off + 1)..(off + w) : b[i] # 0

\* bit k of the flags word at offset 10
FlagBit(b, k) == (b[11 + (k \div 8)] \div (2 ^ (k % 8))) % 2 = 1

\* DRAFT or COMPROMISED is set
Relaxed(b) == FlagBit(b, 1) \/ FlagBit(b, 11)

\* the invariants of a valid header
Invariants34(b) ==
    /\ Recognized(b)
    /\ NonZero(b, 8, 2)
    /\ ~Relaxed(b) =>
          /\ ~NumLess(Reverse(SubSeq(b, 19, 26)), magicDate)
          /\ FlagBit(b, 4) => NonZero(b, 26, 4)
          /\ FlagBit(b, 3) => NonZero(b, 30, 8)
          /\ FlagBit(b, 2) =>
                /\ NonZero(b, 38, 8)
                /\ FlagBit(b, 5) => NonZero(b, 46, 2)
                /\ FlagBit(b, 6) => NonZero(b, 48, 2)
                /\ FlagBit(b, 7) => NonZero(b, 56, 8)
          /\ FlagBit(b, 8) => NonZero(b, 50, 2)

\* the magic and delimiter offsets at which the buffer no longer holds the
\* byte of the recognized header it was made from
ChangedTags == {o \in TagOffsets : file[o + 1] # TagByte(o)}

Ran(name) == pc = "done" /\ op = name

----------------------------------------------------------------------------
(* Properties *)

\* C1: HasHeader returns true if and only if the buffer has at least 80
\* bytes, starts with MAGIC and has DELIMITER at 72..80; hence a recognized
\* header with a magic or delimiter byte changed is rejected by HasHeader and
\* by HasValidHeader.
C1_HasHeaderIff ==
    /\ Ran("HasHeader") => (hh = Recognized(file))
    /\ (Ran("HasHeader") /\ Len(file) >= HeaderSize /\ ChangedTags # {}) => hh = FALSE
    /\ (Ran("HasValidHeader") /\ Len(file) >= HeaderSize /\ ChangedTags # {}) => hv = FALSE

C1_Witness ==
    /\ Ran("HasHeader") /\ Len(file) = HeaderSize
    /\ Cardinality(ChangedTags) = 1 /\ hh = FALSE

\* C2: every recognized 80-byte window whose fields, read at the offsets of
\* the field table, satisfy the invariants of a valid header is accepted by
\* HasValidHeader.
C2_SpecValidAccepted ==
    (Ran("HasValidHeader") /\ Len(file) = HeaderSize /\ Invariants34(file)) => hv = TRUE

\* C3: an accepted header with SIGNED set and neither DRAFT nor COMPROMISED
\* has a signature_type (16 bits at offset 50) of at least 1.
C3_SignedHasType ==
    (Ran("HasValidHeader") /\ hv = TRUE /\ FlagBit(file, 8) /\ ~Relaxed(file))
        => NonZero(file, 50, 2)

\* C4: an accepted header with EMPTY and EXTRACTABLE set and neither DRAFT
\* nor COMPROMISED has a file_ext (bytes 56..64) that is not all zero.
C4_ExtractableHasExt ==
    (Ran("HasValidHeader") /\ hv = TRUE /\ FlagBit(file, 2) /\ FlagBit(file, 7)
     /\ ~Relaxed(file))
        => NonZero(file, 56, 8)

NumEq(a, b) ==
    LET w == IF Len(a) > Len(b) THEN Len(a) ELSE Len(b)
    IN Zeros(w - Len(a)) \o a = Zeros(w - Len(b)) \o b

\* the error kind of an error value: an error the reader reported is
\* surfaced as it is and is of the IO kind
ErrorKind(e) ==
    CASE e \in {"nil", "CDT_ERROR_NONE"} -> "none"
      [] e \in {"io.EOF", "reader failure", "CDT_ERROR_IO"} -> "IO"
      [] e = "io.ErrUnexpectedEOF" -> "UnexpectedEof"
      [] e \in {"ErrNoHeader", "CDT_ERROR_NO_HEADER"} -> "NoHeader"
      [] e \in {"ErrInvalidHeader", "CDT_ERROR_INVALID_HEADER"} -> "InvalidHeader"

\* the first 80 bytes of the source
Window == SubSeq(file, 1, HeaderSize)

\* C6: a record that satisfies the invariants, encoded at the offsets of the
\* field table in little-endian order, decodes to a record equal to it field
\* by field (Go DecodeHeader and C decode_header).
C6_RoundTrip ==
    (pc = "done" /\ rkind = "full" /\ file = EncodeHeader(rec) /\ Invariants34(file)) =>
        /\ op = "DecodeHeader" =>
              /\ goErr = "nil"
              /\ goHeader.Version = rec.Version
              /\ goHeader.Flags = rec.Flags
              /\ goHeader.Timestamp = rec.Timestamp
              /\ goHeader.OPC = rec.OPC
              /\ goHeader.Checksum = rec.Checksum
              /\ goHeader.Size = rec.Size
              /\ goHeader.CompressionAlg = rec.CompressionAlg
              /\ goHeader.EncryptionAlg = rec.EncryptionAlg
              /\ goHeader.SignatureType = rec.SignatureType
              /\ goHeader.SignatureSize = rec.SignatureSize
              /\ goHeader.FileExt = rec.FileExt
              /\ goHeader.Custom = rec.Custom
        /\ op = "decode_header" =>
              /\ cErr = "CDT_ERROR_NONE"
              /\ NumEq(cHeader.version, rec.Version)
              /\ NumEq(cHeader.flags, rec.Flags)
              /\ NumEq(cHeader.timestamp, rec.Timestamp)
              /\ NumEq(cHeader.opc, rec.OPC)
              /\ NumEq(cHeader.checksum, rec.Checksum)
              /\ NumEq(cHeader.size, rec.Size)
              /\ NumEq(cHeader.compression_alg, rec.CompressionAlg)
              /\ NumEq(cHeader.encryption_alg, rec.EncryptionAlg)
              /\ NumEq(cHeader.signature_type, rec.SignatureType)
              /\ NumEq(cHeader.signature_size, rec.SignatureSize)
              /\ SubSeq(cHeader.file_ext, 1, 8) = rec.FileExt
              /\ cHeader.custom = rec.Custom

\* C7: a successful decode has advanced the reader by exactly 80 bytes, and
\* file_ext is bytes 56..64 of the window whatever follows the header.
C7_ReadsExactlyHeader ==
    /\ (Ran("DecodeHeader") /\ goErr = "nil") =>
          cursor = HeaderSize /\ goHeader.FileExt = SubSeq(file, 57, 64)
    /\ (Ran("decode_header") /\ cErr = "CDT_ERROR_NONE") =>
          cursor = HeaderSize /\ SubSeq(cHeader.file_ext, 1, 8) = SubSeq(file, 57, 64)

\* C8: when the source holds fewer than 80 bytes the decoder fails with an
\* error of the IO or UnexpectedEof kind and returns no header record.
C8_ShortSourceFails ==
    /\ (Ran("DecodeHeader") /\ Len(file) < HeaderSize) =>
          ErrorKind(goErr) \in {"IO", "UnexpectedEof"} /\ goHeader = ZeroHeader
    /\ (Ran("decode_header") /\ Len(file) < HeaderSize) =>
          ErrorKind(cErr) \in {"IO", "UnexpectedEof"} /\ cHeader = CallerHeader

\* 79 bytes delivered at once and without error
C8_Witness ==
    /\ Ran("DecodeHeader") /\ Len(file) = HeaderSize - 1 /\ rkind = "full"
    /\ nread = HeaderSize - 1 /\ goErr = "io.ErrUnexpectedEOF"

Mem == file \o beyond

\* C11: on a buffer of fewer than 80 bytes the recognizer and the validator
\* return false and read no byte at or beyond the buffer's length.
C11_ShortBufferRejected ==
    (pc = "done" /\ Len(file) < HeaderSize) =>
        /\ op \in {"HasHeader", "has_header"} => hh = FALSE /\ extent <= Len(file)
        /\ op \in {"HasValidHeader", "has_valid_header"} =>
              hv = FALSE /\ extent <= Len(file)

\* C12: a buffer the validator accepts is a buffer the recognizer accepts.
C12_ValidImpliesHeader ==
    /\ (Ran("HasValidHeader") /\ hv = TRUE) => HasHeader(file) = TRUE
    /\ (Ran("has_valid_header") /\ hv = TRUE) => has_header(Mem) = TRUE

\* an accepted header that is neither a draft nor compromised
C12_Witness ==
    /\ Ran("HasValidHeader") /\ hv = TRUE /\ HasHeader(file) = TRUE
    /\ ~Relaxed(file)

\* C13: the version is checked before the flags: a recognized window with
\* version 0 is rejected by the validator whatever its flags, DRAFT and
\* COMPROMISED included.
C13_VersionBeforeFlags ==
    ((Ran("HasValidHeader") \/ Ran("has_valid_header"))
     /\ Len(file) >= HeaderSize /\ Recognized(Window) /\ ~NonZero(file, 8, 2))
        => hv = FALSE

\* version 0 with COMPROMISED set
C13_Witness ==
    /\ Ran("HasValidHeader") /\ Len(file) >= HeaderSize /\ Recognized(Window)
    /\ ~NonZero(file, 8, 2) /\ FlagBit(file, 11) /\ hv = FALSE

\* the validator, Go or C, has accepted the memory it was handed
Accepted == (Ran("HasValidHeader") \/ Ran("has_valid_header")) /\ hv = TRUE

\* the generated header with its timestamp replaced
WithTimestamp(t) == EncodeHeader([AlignedRec EXCEPT !.Timestamp = t])

\* C14: an accepted header that is neither a draft nor compromised has a
\* timestamp (64 bits at offset 18, unsigned) of at least MAGIC_DATE, so that
\* a timestamp of 2^63 passes; a recognized header with version 1, flags 0
\* and timestamp 0 passes the recognizer and fails the validator.
C14_TimestampChecked ==
    /\ (Accepted /\ ~Relaxed(Mem)) => ~NumLess(Reverse(SubSeq(Mem, 19, 26)), magicDate)
    /\ (Ran("HasValidHeader") \/ Ran("has_valid_header")) =>
          /\ (rec.Timestamp = <<128, 0, 0, 0, 0, 0, 0, 0>>
              /\ file = WithTimestamp(rec.Timestamp)) => hv = TRUE
          /\ (rec.Timestamp = <<22, 237, 162, 145, 1, 220, 28, 0>>
              /\ file = WithTimestamp(rec.Timestamp)) => hv = FALSE
    /\ (pc = "done" /\ Len(file) = HeaderSize /\ Recognized(file)
        /\ SubSeq(file, 9, 10) = <<1, 0>> /\ SubSeq(file, 11, 26) = Zeros(16)) =>
          /\ op \in {"HasHeader", "has_header"} => hh = TRUE
          /\ op \in {"HasValidHeader", "has_valid_header"} => hv = FALSE

\* version 1, flags 0, timestamp 0: rejected
C14_Witness ==
    /\ Ran("HasValidHeader") /\ Len(file) = HeaderSize /\ Recognized(file)
    /\ SubSeq(file, 9, 10) = <<1, 0>> /\ SubSeq(file, 11, 26) = Zeros(16)
    /\ hv = FALSE

\* C15: an accepted header with OPC set, neither a draft nor compromised,
\* has an operation counter (32 bits at offset 26) of at least 1.
C15_OPCChecked ==
    (Accepted /\ ~Relaxed(Mem) /\ FlagBit(Mem, 4)) => NonZero(Mem, 26, 4)

C15_Witness ==
    /\ Ran("HasValidHeader") /\ hv = TRUE /\ ~Relaxed(file) /\ FlagBit(file, 4)
    /\ SubSeq(file, 27, 30) = <<2, 0, 0, 0>>

\* C16: an accepted header with CHECKSUM set, neither a draft nor
\* compromised, has checksum bytes (30..38) that are not all zero.
C16_ChecksumChecked ==
    (Accepted /\ ~Relaxed(Mem) /\ FlagBit(Mem, 3)) => SubSeq(Mem, 31, 38) # empty

C16_Witness ==
    /\ Ran("HasValidHeader") /\ hv = TRUE /\ ~Relaxed(file) /\ FlagBit(file, 3)
    /\ SubSeq(file, 31, 38) = <<99, 104, 101, 99, 107, 115, 117, 109>>

\* C17: an accepted header with EMPTY set, neither a draft nor compromised,
\* has a size (64 bits at offset 38) of at least 1, with COMPRESSED a
\* compression algorithm (16 bits at 46) of at least 1, and with ENCRYPTED
\* an encryption algorithm (16 bits at 48) of at least 1.
C17_EmptyCluster ==
    (Accepted /\ ~Relaxed(Mem) /\ FlagBit(Mem, 2)) =>
        /\ NonZero(Mem, 38, 8)
        /\ FlagBit(Mem, 5) => NonZero(Mem, 46, 2)
        /\ FlagBit(Mem, 6) => NonZero(Mem, 48, 2)

C17_Witness ==
    /\ Ran("HasValidHeader") /\ hv = TRUE /\ ~Relaxed(file)
    /\ FlagBit(file, 2) /\ FlagBit(file, 5) /\ FlagBit(file, 6)
    /\ NonZero(file, 38, 8) /\ NonZero(file, 46, 2) /\ NonZero(file, 48, 2)

\* C18: the 80-byte header the test-data generator emits (version 1, flags
\* 1532, timestamp MAGIC_DATE, opc 2, checksum "checksum", size 3,
\* compression_alg 4, encryption_alg 5, signature_type 6, signature_size 7,
\* file_ext "affixing", custom "tailored") is accepted by the validator, and
\* the decoder reading it from its file returns exactly those values.
C18_FixtureAcceptedDecoded ==
    (pc = "done" /\ rec = AlignedRec /\ file = EncodeHeader(AlignedRec)) =>
        /\ op \in {"HasValidHeader", "has_valid_header"} => hv = TRUE
        /\ (op = "DecodeHeader" /\ rkind = "full") =>
              /\ goErr = "nil"
              /\ goHeader.Version = <<0, 1>>
              /\ goHeader.Flags = <<0, 0, 0, 0, 0, 0, 5, 252>>
              /\ goHeader.Timestamp = <<22, 237, 162, 145, 1, 220, 28, 1>>
              /\ goHeader.OPC = <<0, 0, 0, 2>>
              /\ goHeader.Checksum = <<109, 117, 115, 107, 99, 101, 104, 99>>
              /\ goHeader.Size = <<0, 0, 0, 0, 0, 0, 0, 3>>
              /\ goHeader.CompressionAlg = <<0, 4>>
              /\ goHeader.EncryptionAlg = <<0, 5>>
              /\ goHeader.SignatureType = <<0, 6>>
              /\ goHeader.SignatureSize = <<0, 0, 0, 7>>
              /\ goHeader.FileExt = <<97, 102, 102, 105, 120, 105, 110, 103>>
              /\ goHeader.Custom = <<116, 97, 105, 108, 111, 114, 101, 100>>
        /\ (op = "decode_header" /\ rkind = "full") =>
              /\ cErr = "CDT_ERROR_NONE"
              /\ NumEq(cHeader.version, <<1>>)
              /\ NumEq(cHeader.flags, <<5, 252>>)
              /\ NumEq(cHeader.timestamp, <<22, 237, 162, 145, 1, 220, 28, 1>>)
              /\ NumEq(cHeader.opc, <<2>>)
              /\ NumEq(cHeader.checksum, <<109, 117, 115, 107, 99, 101, 104, 99>>)
              /\ NumEq(cHeader.size, <<3>>)
              /\ NumEq(cHeader.compression_alg, <<4>>)
              /\ NumEq(cHeader.encryption_alg, <<5>>)
              /\ NumEq(cHeader.signature_type, <<6>>)
              /\ NumEq(cHeader.signature_size, <<7>>)
              /\ cHeader.file_ext = <<97, 102, 102, 105, 120, 105, 110, 103, 0>>
              /\ cHeader.custom = <<116, 97, 105, 108, 111, 114, 101, 100>>

C18_Witness ==
    /\ Ran("DecodeHeader") /\ rkind = "full" /\ edits = 0
    /\ file = EncodeHeader(AlignedRec) /\ goErr = "nil"
    /\ goHeader.FileExt = <<97, 102, 102, 105, 120, 105, 110, 103>>

\* C19: when the source holds a recognized header and the reader delivers it
\* over several invocations, each of 1..79 bytes and without error, the
\* decoder succeeds and returns the record of the 80 bytes.
C19_ChunkedReader ==
    (pc = "done" /\ rkind = "short" /\ Len(file) >= HeaderSize /\ Recognized(Window)) =>
        /\ op = "DecodeHeader" => goErr = "nil" /\ goHeader = ParseHeader(Window)
        /\ op = "decode_header" => cErr = "CDT_ERROR_NONE"

\* C20: whatever way decode_header returns, no scratch buffer of the call
\* is left allocated.
C20_ScratchReleased ==
    Ran("decode_header") => cAlloc = 0

\* C21: the decoder does not retry: once an invocation of the reader has
\* reported a failure or the end of the input, the decoder invokes the reader
\* no more and returns that error.  (The C reader reports either by a count
\* below the count asked for; decode_header's second invocation asks for 8.)
C21_NoRetry ==
    /\ (Ran("DecodeHeader") /\ rerr # "nil") => reads = 1 /\ goErr = rerr
    /\ (Ran("decode_header") /\ nread < HeaderSize) =>
          reads = 1 /\ ErrorKind(cErr) = "IO"
    /\ (Ran("decode_header") /\ reads = 2 /\ cursor - HeaderSize < 8) =>
          ErrorKind(cErr) # "none"

C23_VersionUpperBound ==
    (Ran("HasValidHeader") /\ Len(file) >= HeaderSize
     /\ NumLess(<<0, 1>>, Reverse(SubSeq(file, 9, 10))))
        => hv = FALSE

\* C24: the header the v1 test-data generator writes to valid-header.cdt
\* (flags 4|8|16|32|64|128|512, file extension at 50..58, signature type at
\* 58..60, signature size at 60..64) is accepted by VerifyHeader (Go) and
\* verify_header (C).
C24_LegacyFixtureAccepted ==
    (pc = "done" /\ op \in {"VerifyHeader", "verify_header"}
     /\ rec = ValidHeaderRec /\ file = specV1createValidDraft) => hv = TRUE

C24_Witness ==
    /\ Ran("verify_header") /\ edits = 0 /\ file = specV1createValidDraft
    /\ ~Relaxed(file) /\ hv = TRUE

\* the handlers of the command-line tools
ToolOps ==
    {"cmdFileHasHeader", "cmdFileHasValidHeader", "cmdFileInfo",
     "_cmd_file_has_header", "_cmd_file_has_valid_header", "_cmd_file_info"}

\* C25: the command-line tool exits 0 exactly when the file can be opened and
\* its first 80 bytes pass the recognizer (file-has-header), the recognizer
\* and the validator (file-has-valid-header), or the decoder succeeds
\* (file-info); in every other case it exits 1.
C25_ExitMapping ==
    (pc = "done" /\ op \in ToolOps) =>
        /\ exitcode \in {0, 1}
        /\ op \in {"cmdFileHasHeader", "_cmd_file_has_header"} =>
              ((exitcode = 0) <=> (present /\ Recognized(file)))
        /\ op = "cmdFileHasValidHeader" =>
              ((exitcode = 0) <=> (present /\ Recognized(file) /\ HasValidHeader(Window)))
        /\ op = "_cmd_file_has_valid_header" =>
              ((exitcode = 0) <=> (present /\ Recognized(file) /\ has_valid_header(Window)))
        /\ op = "cmdFileInfo" =>
              ((exitcode = 0) <=> (present /\ DecodeHeader("full", file, 0).err = "nil"))
        /\ op = "_cmd_file_info" =>
              ((exitcode = 0) <=>
                  (present /\ decode_header("full", file, 0, CallerHeader).err = "CDT_ERROR_NONE"))
        /\ op \in {"cmdFileInfo", "_cmd_file_info"} =>
              ((exitcode = 0) <=> (present /\ Recognized(file)))

\* a recognized header the validator rejects: exit status 1
C25_Witness ==
    /\ Ran("cmdFileHasValidHeader") /\ present /\ Recognized(file)
    /\ ~HasValidHeader(Window) /\ exitcode = 1

\* C26: the validators make no check on the signature size: two headers that
\* differ only in bytes 52..56 get the same answer from HasValidHeader and
\* from has_valid_header.
C26_SignatureSizeIgnored ==
    (pc = "done" /\ op \in {"HasValidHeader", "has_valid_header"}
        /\ Len(file) >= HeaderSize) =>
        \A v \in {Zeros(4), <<7, 0, 0, 0>>} :
            /\ op = "HasValidHeader" => HasValidHeader(Splice(file, 52, v)) = hv
            /\ op = "has_valid_header" => has_valid_header(Splice(file, 52, v)) = hv

\* the flag bits no check of the validators is gated on: INVALID,
\* STREAMABLE, CUSTOM and three of the unassigned bits 12..63
UngatedBits == {0, 9, 10, 12, 32, 63}

\* the buffer b with flag bit k of its flags field flipped
WithFlagBitFlipped(b, k) ==
    LET i == 11 + (k \div 8)
        w == 2 ^ (k % 8)
    IN [b EXCEPT ![i] = IF (@ \div w) % 2 = 1 THEN @ - w ELSE @ + w]

\* buffers that agree with b except in the custom field, in the bytes after
\* the header, or in one ungated flag bit
Lookalikes(b) ==
    {Splice(b, 64, Zeros(8)), Splice(b, 64, <<1, 2, 3, 4, 5, 6, 7, 8>>),
     SubSeq(b, 1, HeaderSize), b \o <<9>>, SubSeq(b, 1, HeaderSize) \o <<200, 183>>}
    \cup {WithFlagBitFlipped(b, k) : k \in UngatedBits}

\* C27: the validators look only at the 80-byte window and only at the
\* gating inputs: a buffer of at least 80 bytes and any buffer that differs
\* from it only in the custom field (64..72), in bytes at offset 80 or
\* later, or in flag bit 0, 9, 10 or an unassigned bit get the same answer.
C27_OnlyGatingInputs ==
    (pc = "done" /\ op \in {"HasValidHeader", "has_valid_header"}
        /\ Len(file) >= HeaderSize) =>
        \A other \in Lookalikes(file) :
            /\ op = "HasValidHeader" => HasValidHeader(other) = hv
            /\ op = "has_valid_header" => has_valid_header(other) = hv

\* a fully checked header with the custom flag, followed by a payload, is
\* accepted
C27_Witness ==
    /\ Ran("HasValidHeader") /\ Len(file) > HeaderSize /\ Recognized(file)
    /\ ~Relaxed(file) /\ FlagBit(file, 10) /\ hv = TRUE

\* C28: a decode that fails exposes nothing it read: DecodeHeader returns
\* the zero-value Header with its error, and decode_header leaves the
\* caller's record as it was.
C28_NothingExposedOnFailure ==
    /\ (Ran("DecodeHeader") /\ goErr # "nil") => goHeader = ZeroHeader
    /\ (Ran("decode_header") /\ cErr # "CDT_ERROR_NONE") => cHeader = CallerHeader

\* a short read that delivered the magic bytes: the unexpected-EOF error with
\* the zero-value Header
C28_Witness ==
    /\ Ran("DecodeHeader") /\ goErr = "io.ErrUnexpectedEOF" /\ nread >= 8
    /\ SubSeq(file, 1, 8) = Magic /\ goHeader = ZeroHeader

\* C29: when the source is exactly 80 bytes long and the reader delivers all
\* 80 bytes and reports the end of input in the same invocation, the decoder
\* returns the decoded header, not an error.
C29_EOFWithFullHeader ==
    /\ (Ran("DecodeHeader") /\ rkind = "eof" /\ Len(file) = HeaderSize
            /\ nread = HeaderSize /\ Recognized(file)) =>
          goErr = "nil" /\ goHeader = ParseHeader(file)
    /\ (Ran("decode_header") /\ rkind = "eof" /\ Len(file) = HeaderSize
            /\ nread = HeaderSize /\ Recognized(file)) =>
          cErr = "CDT_ERROR_NONE"

\* C30: the sibling validators agree: on every buffer of at least 80 bytes
\* the earlier VerifyHeader, HasValidHeader and the C has_valid_header
\* return the same boolean.
C30_SiblingValidatorsAgree ==
    (Ran("VerifyHeader") /\ Len(file) >= HeaderSize) =>
        /\ hv = HasValidHeader(file)
        /\ hv = has_valid_header(file)

\* a fully checked header that all three accept
C30_Witness ==
    /\ Ran("VerifyHeader") /\ Len(file) >= HeaderSize /\ ~Relaxed(file)
    /\ hv = TRUE /\ HasValidHeader(file) /\ has_valid_header(file)

====
